---- MODULE Spec2Model ----
(***************************************************************************)
(* A model of ppt.py: the Streamlit form handler main(), the PPTGenerator  *)
(* rate limiter and retry wrapper, the outline parser with its fallback,   *)
(* the per-record layout loop of generate_ppt and the image pipeline       *)
(* (description, photo search, download, insertion, temp-file removal).    *)
(*                                                                         *)
(* Text is modelled at two grains.  Slide contents are sequences of        *)
(* one-character strings, so that (keyword in content_lower) is a real       *)
(* substring test.  A model response is a sequence of lexical tokens       *)
(* (code fence, the word json, brackets, whitespace, prose, a JSON value), *)
(* so that strip/split/startswith/json.loads act on it as in the source.   *)
(* Time is in whole seconds.                                               *)
(***************************************************************************)
EXTENDS Integers, Sequences, FiniteSets, TLC

VARIABLES
  topic,             \* form: "Presentation Topic"
  gemini_api_key,    \* form: "Gemini API Key"
  pexel_api_key,     \* form: "Pexels API Key"
  include_images,    \* form: "Include Images" checkbox
  pc,                \* where the single thread of control stands
  caller,            \* who called _retry_api_call: "outline", "content", "image"
  now,               \* time.time()
  last_api_call,     \* PPTGenerator.last_api_call
  api_call_count,    \* PPTGenerator.api_call_count
  attempt,           \* loop variable of _retry_api_call
  log,               \* history of the current _retry_api_call invocation
  retResult,         \* value returned by _retry_api_call
  content_outlines,  \* generate_ppt: the outline
  i,                 \* generate_ppt: loop index
  slides,            \* presentation.slides
  image_desc,        \* query handed to download_images
  tempFile,          \* does temp_image.jpg exist
  contacted,         \* services a network request has been sent to
  savedFile,         \* has presentation.save written the output file
  message,           \* st.error shown by main
  raised,            \* exception that reached main's try block
  constructed,       \* has PPTGenerator.__init__ completed
  failed,            \* image steps that failed for the record being laid out
  apiErrors          \* text-generation requests that raised so far

vars == <<topic, gemini_api_key, pexel_api_key, include_images, pc, caller,
          now, last_api_call, api_call_count, attempt, log, retResult,
          content_outlines, i, slides, image_desc, tempFile, contacted,
          savedFile, message, raised, constructed, failed, apiErrors>>

-----------------------------------------------------------------------------
(* Bounds of the model *)

MaxSlides == 2        \* longest outline the model lets the language model return
StartTime == 100      \* time.time() when the button is pressed
MaxWrapped == 1       \* longest array tried in each fenced / prefixed wrapping
MaxApiErrors == 3     \* text-generation requests the environment lets fail in one run

(* Program constants *)

min_delay == 30
max_retries == 3
QuotaBackoff == 45
UnavailableBackoff == 5

-----------------------------------------------------------------------------
(* Generic sequence helpers: str.find, str.split, `in`, str.lower *)

Find(s, sep) ==
  LET hits == {k \in 1..(Len(s) - Len(sep) + 1) :
                 SubSeq(s, k, k + Len(sep) - 1) = sep}
  IN IF hits = {} THEN 0 ELSE CHOOSE k \in hits : \A m \in hits : k <= m

Contains(s, sep) == Find(s, sep) # 0

RECURSIVE Split(_, _)
Split(s, sep) ==
  LET k == Find(s, sep)
  IN IF k = 0 THEN <<s>>
     ELSE <<SubSeq(s, 1, k - 1)>> \o Split(SubSeq(s, k + Len(sep), Len(s)), sep)

UpperToLower ==
  ("A" :> "a") @@ ("B" :> "b") @@ ("C" :> "c") @@ ("D" :> "d") @@ ("E" :> "e") @@
  ("F" :> "f") @@ ("G" :> "g") @@ ("H" :> "h") @@ ("I" :> "i") @@ ("J" :> "j") @@
  ("K" :> "k") @@ ("L" :> "l") @@ ("M" :> "m") @@ ("N" :> "n") @@ ("O" :> "o") @@
  ("P" :> "p") @@ ("Q" :> "q") @@ ("R" :> "r") @@ ("S" :> "s") @@ ("T" :> "t") @@
  ("U" :> "u") @@ ("V" :> "v") @@ ("W" :> "w") @@ ("X" :> "x") @@ ("Y" :> "y") @@
  ("Z" :> "z")

Lower(s) ==
  [k \in 1..Len(s) |-> IF s[k] \in DOMAIN UpperToLower THEN UpperToLower[s[k]] ELSE s[k]]

RECURSIVE Join(_, _)
Join(items, sep) ==
  IF items = <<>> THEN <<>>
  ELSE IF Len(items) = 1 THEN items[1]
  ELSE items[1] \o sep \o Join(Tail(items), sep)

-----------------------------------------------------------------------------
(* Slide contents and JSON values *)

Str(chars) == [isList |-> FALSE, items |-> <<chars>>]
List(lines) == [isList |-> TRUE, items |-> lines]

\* content_text / content_str: newline-join of a list, str(...) otherwise
ContentText(content) ==
  IF content.isList THEN Join(content.items, <<"\n">>) ELSE content.items[1]

Dict(has, title, content, slide_type) ==
  [kind |-> "dict", has |-> has, title |-> title, content |-> content,
   slide_type |-> slide_type]

AllKeys == {"title", "content", "slide_type"}

Number == [kind |-> "number", has |-> {}, title |-> "", content |-> Str(<<>>),
           slide_type |-> ""]

NoValue == [kind |-> "none", has |-> {}, title |-> "", content |-> Str(<<>>),
            slide_type |-> ""]

\* dict.get(key, default)
Get(d, key, default) ==
  IF key \in d.has
  THEN CASE key = "title" -> d.title
         [] key = "content" -> d.content
         [] key = "slide_type" -> d.slide_type
  ELSE default

_get_fallback_content(t) ==
  << Dict(AllKeys, t,
          Str(<<"I","n","t","r","o","d","u","c","t","i","o","n"," ","a","n","d"," ","O","v","e","r","v","i","e","w">>),
          "title"),
     Dict(AllKeys, "Background",
          Str(<<"K","e","y"," ","b","a","c","k","g","r","o","u","n","d"," ","i","n","f","o","r","m","a","t","i","o","n">>),
          "content"),
     Dict(AllKeys, "Main Points",
          Str(<<"I","m","p","o","r","t","a","n","t"," ","d","e","t","a","i","l","s"," ","a","n","d"," ","e","x","a","m","p","l","e","s">>),
          "content"),
     Dict(AllKeys, "Analysis",
          Str(<<"C","r","i","t","i","c","a","l"," ","a","n","a","l","y","s","i","s"," ","a","n","d"," ","i","n","s","i","g","h","t","s">>),
          "content"),
     Dict(AllKeys, "Future Outlook",
          Str(<<"T","r","e","n","d","s"," ","a","n","d"," ","p","r","e","d","i","c","t","i","o","n","s">>),
          "content"),
     Dict(AllKeys, "Conclusion",
          Str(<<"S","u","m","m","a","r","y"," ","a","n","d"," ","t","a","k","e","a","w","a","y","s">>),
          "conclusion") >>

keyword_map ==
  <<[keyword |-> <<"i","n","t","r","o","d","u","c","t","i","o","n">>, image_desc |-> "professional business presentation"],
    [keyword |-> <<"c","o","n","c","l","u","s","i","o","n">>, image_desc |-> "success celebration team"],
    [keyword |-> <<"f","u","t","u","r","e">>, image_desc |-> "futuristic technology innovation"],
    [keyword |-> <<"c","h","a","l","l","e","n","g","e">>, image_desc |-> "business strategy planning"],
    [keyword |-> <<"b","e","n","e","f","i","t">>, image_desc |-> "growth success chart"],
    [keyword |-> <<"p","r","o","c","e","s","s">>, image_desc |-> "workflow diagram business"],
    [keyword |-> <<"t","e","a","m">>, image_desc |-> "diverse team collaboration"],
    [keyword |-> <<"a","i">>, image_desc |-> "artificial intelligence technology"],
    [keyword |-> <<"m","o","v","i","e">>, image_desc |-> "film production cinema"],
    [keyword |-> <<"p","r","o","d","u","c","t","i","o","n">>, image_desc |-> "movie set film making"],
    [keyword |-> <<"t","e","c","h","n","o","l","o","g","y">>, image_desc |-> "modern technology innovation"]>>

\* the loop over keyword_map.items(): the first keyword found in the
\* lower-cased content, "" when none is
CachedDescription(slide_content) ==
  LET content_lower == Lower(slide_content)
      hits == {k \in 1..Len(keyword_map) : Contains(content_lower, keyword_map[k].keyword)}
  IN IF hits = {} THEN ""
     ELSE keyword_map[CHOOSE k \in hits : \A m \in hits : k <= m].image_desc

DefaultDescription == "professional presentation visual"

-----------------------------------------------------------------------------
(* Model responses as token sequences *)

Tok(t, w) == [t |-> t, w |-> w, v |-> NoValue]
Fence == Tok("fence", "<fence>")   \* three backquotes
JsonWord == Tok("word", "json")
LBracket == Tok("lbr", "[")
RBracket == Tok("rbr", "]")
Newline == Tok("ws", "\n")
Prose == Tok("prose", "Here is your outline:")
Val(v) == [t |-> "val", w |-> "<value>", v |-> v]

\* str.strip()
RECURSIVE LStrip(_)
LStrip(s) == IF s # <<>> /\ s[1].t = "ws" THEN LStrip(Tail(s)) ELSE s

RECURSIVE RStrip(_)
RStrip(s) ==
  IF s # <<>> /\ s[Len(s)].t = "ws" THEN RStrip(SubSeq(s, 1, Len(s) - 1)) ELSE s

Strip(s) == RStrip(LStrip(s))

RECURSIVE TextOf(_)
TextOf(s) == IF s = <<>> THEN "" ELSE s[1].w \o TextOf(Tail(s))

\* lines 100-103: take the text out of a Markdown code fence
Unfence(content) ==
  IF Contains(content, <<Fence, JsonWord>>)
  THEN Strip(Split(Split(content, <<Fence, JsonWord>>)[2], <<Fence>>)[1])
  ELSE IF Contains(content, <<Fence>>)
  THEN Strip(Split(content, <<Fence>>)[2])
  ELSE content

\* content.startswith of an opening bracket
StartsWithBracket(content) == content # <<>> /\ content[1] = LBracket

\* does json.loads(content) return (rather than raise) for a text that
\* starts with an opening bracket
JsonValid(content) ==
  /\ Len(content) >= 2
  /\ content[1] = LBracket
  /\ content[Len(content)] = RBracket
  /\ \A k \in 2..(Len(content) - 1) : content[k].t \in {"val", "ws"}

\* json.loads(content) of a valid array text
JsonLoads(content) ==
  LET vals == SelectSeq(content, LAMBDA tk : tk.t = "val")
  IN [k \in 1..Len(vals) |-> vals[k].v]

-----------------------------------------------------------------------------
(* Inputs the environment can supply *)

Topics == {"", "Solar Power"}
Keys == {"", "key"}
author_name == "Pranab"

\* seconds a text-generation request takes before it returns or raises
Durations == {2}

\* str(e) of the exceptions a text-generation request can raise
ErrorMessages ==
  { <<"4","2","9"," ","T","o","o"," ","M","a","n","y">>,
    <<"5","0","3"," ","U","n","a","v","a","i","l","a","b","l","e">>,
    <<"5","0","3"," ","Q","u","o","t","a">>,
    <<"5","0","0"," ","I","n","t","e","r","n","a","l">> }

\* records the language model can put in its array
Pool ==
  { Dict(AllKeys, "Intro", Str(<<"O","u","r"," ","t","e","a","m">>), "title"),
    Dict(AllKeys, "Body", Str(<<"p","l","a","n">>), "content"),
    Dict(AllKeys, "Pic", List(<< <<"a">>, <<"i">> >>), "image"),
    Dict(AllKeys, "Shot", Str(<<"M","o","v","i","e","s">>), "image"),
    Dict(AllKeys, "Misc", Str(<<"A","I">>), "summary"),
    Dict({}, "", Str(<<>>), ""),
    Number }

RECURSIVE SeqsUpTo(_, _)
SeqsUpTo(S, n) ==
  IF n = 0 THEN {<<>>}
  ELSE LET shorter == SeqsUpTo(S, n - 1)
       IN shorter \cup {Append(a, x) : a \in {b \in shorter : Len(b) = n - 1}, x \in S}

\* the text of a JSON array
ArrayText(a) == <<LBracket>> \o [k \in 1..Len(a) |-> Val(a[k])] \o <<RBracket>>

ResponseTexts ==
  {ArrayText(a) : a \in SeqsUpTo(Pool, MaxSlides)}
  \cup {<<Fence, JsonWord, Newline>> \o ArrayText(a) \o <<Newline, Fence>> :
          a \in SeqsUpTo(Pool, MaxWrapped)}
  \cup {<<Prose, Newline, Fence, Newline>> \o ArrayText(a) \o <<Newline, Fence, Newline, Prose>> :
          a \in SeqsUpTo(Pool, MaxWrapped)}
  \cup {<<Prose, Newline>> \o ArrayText(a) : a \in SeqsUpTo(Pool, MaxWrapped)}
  \cup { <<Prose>>,
         <<>>,
         <<LBracket, Val(Number)>>,
         <<LBracket, Prose, RBracket>>,
         <<Fence, JsonWord, Newline, Prose, Newline, Fence>> }

\* response.text of an image-description request
PhraseTexts == { <<Tok("prose", "city skyline at night")>>, <<Newline>> }

None == [isNone |-> TRUE, text |-> <<>>]
Returned(text) == [isNone |-> FALSE, text |-> text]

-----------------------------------------------------------------------------
(* PPTGenerator._wait_for_rate_limit and _retry_api_call *)

\* RateLimitWait with the comparison turned around
RateLimitWaitInverted(current_time, last) ==
  LET time_since_last_call == current_time - last
  IN IF time_since_last_call > min_delay
     THEN time_since_last_call - min_delay
     ELSE 0

\* lines 31-37: how long _wait_for_rate_limit sleeps
RateLimitWait(current_time, last) ==
  LET time_since_last_call == current_time - last
  IN IF time_since_last_call < min_delay
     THEN min_delay - time_since_last_call
     ELSE 0

\* line 50
IsQuotaError(error_msg) ==
  \/ Contains(error_msg, <<"4","2","9">>)
  \/ Contains(Lower(error_msg), <<"q","u","o","t","a">>)

\* line 60
IsUnavailableError(error_msg) == Contains(error_msg, <<"5","0","3">>)

\* OnException with a backoff that does not grow with the attempt
OnExceptionFlatBackoff(error_msg, att) ==
  IF Contains(error_msg, <<"4","2","9">>) \/ Contains(Lower(error_msg), <<"q","u","o","t","a">>)
  THEN IF att < max_retries - 1
       THEN [retry |-> TRUE, wait_time |-> QuotaBackoff]
       ELSE [retry |-> FALSE, wait_time |-> 0]
  ELSE IF Contains(error_msg, <<"5","0","3">>)
  THEN IF att < max_retries - 1
       THEN [retry |-> TRUE, wait_time |-> UnavailableBackoff]
       ELSE [retry |-> FALSE, wait_time |-> 0]
  ELSE [retry |-> FALSE, wait_time |-> 0]

\* OnException that backs off after the last attempt too
OnExceptionSleepsOnLast(error_msg, att) ==
  IF Contains(error_msg, <<"4","2","9">>) \/ Contains(Lower(error_msg), <<"q","u","o","t","a">>)
  THEN IF att < max_retries
       THEN [retry |-> TRUE, wait_time |-> QuotaBackoff * (att + 1)]
       ELSE [retry |-> FALSE, wait_time |-> 0]
  ELSE IF Contains(error_msg, <<"5","0","3">>)
  THEN IF att < max_retries
       THEN [retry |-> TRUE, wait_time |-> UnavailableBackoff * (att + 1)]
       ELSE [retry |-> FALSE, wait_time |-> 0]
  ELSE [retry |-> FALSE, wait_time |-> 0]

\* OnException that treats every other error as a 503
OnExceptionRetriesAll(error_msg, att) ==
  IF Contains(error_msg, <<"4","2","9">>) \/ Contains(Lower(error_msg), <<"q","u","o","t","a">>)
  THEN IF att < max_retries - 1
       THEN [retry |-> TRUE, wait_time |-> QuotaBackoff * (att + 1)]
       ELSE [retry |-> FALSE, wait_time |-> 0]
  ELSE IF att < max_retries - 1
       THEN [retry |-> TRUE, wait_time |-> UnavailableBackoff * (att + 1)]
       ELSE [retry |-> FALSE, wait_time |-> 0]

\* lines 47-71: what the except clause does with an exception raised in
\* the attempt numbered att (from 0): retry after a sleep, or give up
OnException(error_msg, att) ==
  IF IsQuotaError(error_msg)
  THEN IF att < max_retries - 1
       THEN [retry |-> TRUE, wait_time |-> QuotaBackoff * (att + 1)]
       ELSE [retry |-> FALSE, wait_time |-> 0]
  ELSE IF IsUnavailableError(error_msg)
  THEN IF att < max_retries - 1
       THEN [retry |-> TRUE, wait_time |-> UnavailableBackoff * (att + 1)]
       ELSE [retry |-> FALSE, wait_time |-> 0]
  ELSE [retry |-> FALSE, wait_time |-> 0]

\* where _retry_api_call returns to
ReturnPoint(c) == IF c = "outline" THEN "outline_ret" ELSE "desc_ret"

ResponsesFor(c) == IF c = "outline" THEN ResponseTexts ELSE PhraseTexts

\* One iteration of the loop in which func returns: the rate-limit wait,
\* the request, and the return of its stripped text.
ApiCallReturns ==
  /\ pc = "retry"
  /\ attempt < max_retries
  /\ \E d \in Durations, text \in ResponsesFor(caller) :
       LET started == now + RateLimitWait(now, last_api_call)
       IN /\ last_api_call' = started
          /\ api_call_count' = api_call_count + 1
          /\ now' = started + d
          /\ retResult' = Returned(Strip(text))
          /\ log' = Append(log, [ok |-> TRUE, msg |-> <<>>, started |-> started,
                                 wait_time |-> 0, value |-> Strip(text)])
  /\ contacted' = contacted \cup {"generate"}
  /\ pc' = ReturnPoint(caller)
  /\ UNCHANGED <<topic, gemini_api_key, pexel_api_key, include_images, caller,
                 attempt, content_outlines, i, slides, image_desc, tempFile,
                 savedFile, message, raised, constructed, failed, apiErrors>>

\* One iteration of the loop in which func raises: the rate-limit wait, the
\* request, and the except clause with its backoff sleep.  A continue in
\* the last iteration would leave the loop and reach line 73.
ApiCallRaises ==
  /\ pc = "retry"
  /\ attempt < max_retries
  /\ apiErrors < MaxApiErrors
  /\ apiErrors' = apiErrors + 1
  /\ \E d \in Durations, error_msg \in ErrorMessages :
       LET started == now + RateLimitWait(now, last_api_call)
           handled == OnException(error_msg, attempt)
       IN /\ last_api_call' = started
          /\ api_call_count' = api_call_count + 1
          /\ now' = started + d + handled.wait_time
          /\ log' = Append(log, [ok |-> FALSE, msg |-> error_msg, started |-> started,
                                 wait_time |-> handled.wait_time, value |-> <<>>])
          /\ IF handled.retry /\ attempt + 1 < max_retries
             THEN /\ attempt' = attempt + 1
                  /\ UNCHANGED <<pc, retResult>>
             ELSE /\ retResult' = None
                  /\ pc' = ReturnPoint(caller)
                  /\ UNCHANGED attempt
  /\ contacted' = contacted \cup {"generate"}
  /\ UNCHANGED <<topic, gemini_api_key, pexel_api_key, include_images, caller,
                 content_outlines, i, slides, image_desc, tempFile,
                 savedFile, message, raised, constructed, failed>>

-----------------------------------------------------------------------------
(* main: the Generate button *)

\* Validate without the check of the Pexels key
ValidateWithoutPexels(t, gemini, pexel) ==
  IF t = "" THEN "Please enter a presentation topic!"
  ELSE IF gemini = "" THEN "Please provide your Gemini API key in the sidebar!"
  ELSE ""

\* lines 421-431: the message of the first failed check, "" when all pass
Validate(t, gemini, pexel) ==
  IF t = "" THEN "Please enter a presentation topic!"
  ELSE IF gemini = "" THEN "Please provide your Gemini API key in the sidebar!"
  ELSE IF pexel = "" THEN "Please provide your Pexels API key in the sidebar!"
  ELSE ""

MainRejects ==
  /\ pc = "form"
  /\ Validate(topic, gemini_api_key, pexel_api_key) # ""
  /\ message' = Validate(topic, gemini_api_key, pexel_api_key)
  /\ pc' = "rejected"
  /\ UNCHANGED <<topic, gemini_api_key, pexel_api_key, include_images, caller,
                 now, last_api_call, api_call_count, attempt, log, retResult,
                 content_outlines, i, slides, image_desc, tempFile, contacted,
                 savedFile, raised, constructed, failed, apiErrors>>

\* lines 436-443, 15-28, 290, 95: construct the generator and enter
\* generate_ppt, generate_content_outlines and _retry_api_call
MainGenerates ==
  /\ pc = "form"
  /\ Validate(topic, gemini_api_key, pexel_api_key) = ""
  /\ IF gemini_api_key = ""
     THEN /\ raised' = "ValueError"
          /\ message' = "An error occurred"
          /\ pc' = "error"
          /\ UNCHANGED <<constructed, last_api_call, api_call_count, caller,
                         attempt, log>>
     ELSE /\ constructed' = TRUE
          /\ last_api_call' = 0
          /\ api_call_count' = 0
          /\ pc' = "retry"
          /\ caller' = "outline"
          /\ attempt' = 0
          /\ log' = <<>>
          /\ UNCHANGED <<raised, message>>
  /\ UNCHANGED <<topic, gemini_api_key, pexel_api_key, include_images, now,
                 retResult, content_outlines, i, slides, image_desc, tempFile,
                 contacted, savedFile, failed, apiErrors>>

-----------------------------------------------------------------------------
(* generate_content_outlines, after _retry_api_call returned *)

\* the locals of a finished _retry_api_call go out of scope with its caller
WrapperLocalsDropped ==
  /\ attempt' = 0
  /\ log' = <<>>
  /\ retResult' = None

\* lines 97-113
Outline(result, t) ==
  IF result.isNone THEN _get_fallback_content(t)
  ELSE LET content == Unfence(result.text)
       IN IF ~StartsWithBracket(content) THEN _get_fallback_content(t)
          ELSE IF JsonValid(content) THEN JsonLoads(content)
          ELSE _get_fallback_content(t)

ParseOutline ==
  /\ pc = "outline_ret"
  /\ content_outlines' = Outline(retResult, topic)
  /\ i' = 0
  /\ pc' = "layout"
  /\ WrapperLocalsDropped
  /\ UNCHANGED <<topic, gemini_api_key, pexel_api_key, include_images, caller,
                 now, last_api_call, api_call_count,
                 slides, image_desc, tempFile, contacted, savedFile, message,
                 raised, constructed, failed, apiErrors>>

-----------------------------------------------------------------------------
(* generate_ppt: the loop over the outline *)

\* str(i + 1) in the default title
SlideNumber(idx) == "Slide " \o ToString(idx + 1)

\* lines 294-296
TitleOf(slide_data, idx) == Get(slide_data, "title", SlideNumber(idx))
ContentOf(slide_data) == Get(slide_data, "content", Str(<<>>))
SlideTypeOf(slide_data) == Get(slide_data, "slide_type", "content")

\* Routine without the branch for image records
RoutineWithoutImage(idx, slide_type) ==
  IF idx = 0 \/ slide_type = "title" THEN "title"
  ELSE IF slide_type = "content" THEN "content_with_image"
  ELSE "content_plain"

\* lines 301-310: the layout branch taken for the record at index idx
Routine(idx, slide_type) ==
  IF idx = 0 \/ slide_type = "title" THEN "title"
  ELSE IF slide_type = "content" THEN "content_with_image"
  ELSE IF slide_type = "image" THEN "image"
  ELSE "content_plain"

\* the slide each create_*_slide routine adds before it looks for a picture
TitleSlide(title, subtitle) ==
  [routine |-> "create_title_slide", title |-> title, subtitle |-> subtitle,
   text |-> <<>>, include_image |-> FALSE, picture |-> FALSE]

ContentSlide(title, content, inc) ==
  [routine |-> "create_content_slide", title |-> title, subtitle |-> "",
   text |-> ContentText(content), include_image |-> inc, picture |-> FALSE]

ImageSlide(title, content) ==
  [routine |-> "create_image_slide", title |-> title, subtitle |-> "",
   text |-> ContentText(content), include_image |-> TRUE, picture |-> FALSE]

Current == content_outlines[i + 1]

InLoop == pc = "layout" /\ i < Len(content_outlines)

\* slide_data.get on something that is not a dict: AttributeError leaves
\* generate_ppt and is caught at line 456
LayoutAbort ==
  /\ InLoop
  /\ Current.kind # "dict"
  /\ raised' = "AttributeError"
  /\ message' = "An error occurred"
  /\ pc' = "error"
  /\ UNCHANGED <<topic, gemini_api_key, pexel_api_key, include_images, caller,
                 now, last_api_call, api_call_count, attempt, log, retResult,
                 content_outlines, i, slides, image_desc, tempFile, contacted,
                 savedFile, constructed, failed, apiErrors>>

\* lines 301-302
LayoutTitle ==
  /\ InLoop
  /\ Current.kind = "dict"
  /\ Routine(i, SlideTypeOf(Current)) = "title"
  /\ slides' = Append(slides, TitleSlide(TitleOf(Current, i), "Created by " \o author_name))
  /\ failed' = {}
  /\ i' = i + 1
  /\ UNCHANGED <<topic, gemini_api_key, pexel_api_key, include_images, pc, caller,
                 now, last_api_call, api_call_count, attempt, log, retResult,
                 content_outlines, image_desc, tempFile, contacted,
                 savedFile, message, raised, constructed, apiErrors>>

\* lines 309-310
LayoutPlain ==
  /\ InLoop
  /\ Current.kind = "dict"
  /\ Routine(i, SlideTypeOf(Current)) = "content_plain"
  /\ slides' = Append(slides, ContentSlide(TitleOf(Current, i), ContentOf(Current), FALSE))
  /\ failed' = {}
  /\ i' = i + 1
  /\ UNCHANGED <<topic, gemini_api_key, pexel_api_key, include_images, pc, caller,
                 now, last_api_call, api_call_count, attempt, log, retResult,
                 content_outlines, image_desc, tempFile, contacted,
                 savedFile, message, raised, constructed, apiErrors>>

\* generative_image_description up to its return or its entry into
\* _retry_api_call (lines 126-158), called on behalf of c
DescribeFor(c, slide_content) ==
  LET cached == CachedDescription(slide_content)
  IN IF cached # ""
     THEN /\ image_desc' = cached
          /\ pc' = "download"
          /\ UNCHANGED <<caller, attempt, log>>
     ELSE /\ pc' = "retry"
          /\ caller' = c
          /\ attempt' = 0
          /\ log' = <<>>
          /\ UNCHANGED image_desc

\* lines 303-304 and create_content_slide up to line 233
LayoutContent ==
  /\ InLoop
  /\ Current.kind = "dict"
  /\ Routine(i, SlideTypeOf(Current)) = "content_with_image"
  /\ slides' = Append(slides, ContentSlide(TitleOf(Current, i), ContentOf(Current), TRUE))
  /\ failed' = {}
  /\ DescribeFor("content", ContentText(ContentOf(Current)))
  /\ UNCHANGED <<topic, gemini_api_key, pexel_api_key, include_images,
                 now, last_api_call, api_call_count, retResult,
                 content_outlines, i, tempFile, contacted,
                 savedFile, message, raised, constructed, apiErrors>>

\* lines 305-308: the description is asked for first; when it is cached,
\* create_image_slide adds its slide at once (lines 245-270)
LayoutImage ==
  /\ InLoop
  /\ Current.kind = "dict"
  /\ Routine(i, SlideTypeOf(Current)) = "image"
  /\ failed' = {}
  /\ DescribeFor("image", ContentText(ContentOf(Current)))
  /\ slides' = IF CachedDescription(ContentText(ContentOf(Current))) # ""
               THEN Append(slides, ImageSlide(TitleOf(Current, i), ContentOf(Current)))
               ELSE slides
  /\ UNCHANGED <<topic, gemini_api_key, pexel_api_key, include_images,
                 now, last_api_call, api_call_count, retResult,
                 content_outlines, i, tempFile, contacted,
                 savedFile, message, raised, constructed, apiErrors>>

\* line 159: result if result else the default phrase
DescriptionOrDefault(result) ==
  IF result.isNone \/ result.text = <<>> THEN DefaultDescription
  ELSE TextOf(result.text)

MarkFailed(step) == failed' = failed \cup {step}

\* generative_image_description after _retry_api_call returned (lines
\* 158-159); for an image record create_image_slide then adds its slide
DescriptionReturns ==
  /\ pc = "desc_ret"
  /\ image_desc' = DescriptionOrDefault(retResult)
  /\ IF retResult.isNone \/ retResult.text = <<>>
     THEN MarkFailed("description")
     ELSE UNCHANGED failed
  /\ slides' = IF caller = "image"
               THEN Append(slides, ImageSlide(TitleOf(Current, i), ContentOf(Current)))
               ELSE slides
  /\ pc' = "download"
  /\ WrapperLocalsDropped
  /\ UNCHANGED <<topic, gemini_api_key, pexel_api_key, include_images, caller,
                 now, last_api_call, api_call_count,
                 content_outlines, i, tempFile, contacted,
                 savedFile, message, raised, constructed, apiErrors>>

-----------------------------------------------------------------------------
(* download_images and the picture insertion *)

\* the slide routine returns to the loop of generate_ppt, which moves on
RoutineReturns ==
  /\ pc' = "layout"
  /\ i' = i + 1
  /\ image_desc' = ""

DownloadOutcomes == {"search_error", "no_photo", "download_error", "saved"}

\* lines 164-188, and the return of the slide routine when no path came back
DownloadImages ==
  /\ pc = "download"
  /\ \E outcome \in DownloadOutcomes :
       /\ contacted' = contacted \cup {"search"} \cup
                         (IF outcome \in {"download_error", "saved"}
                          THEN {"download"} ELSE {})
       /\ IF outcome = "saved"
          THEN /\ tempFile' = TRUE
               /\ pc' = "picture"
               /\ UNCHANGED <<i, failed, image_desc>>
          ELSE /\ MarkFailed(outcome)
               /\ RoutineReturns
               /\ UNCHANGED tempFile
  /\ UNCHANGED <<topic, gemini_api_key, pexel_api_key, include_images, caller,
                 now, last_api_call, api_call_count, attempt, log, retResult,
                 content_outlines, slides,
                 savedFile, message, raised, constructed, apiErrors>>

\* AddPicture without the try/except around the insertion
AddPictureUncaught ==
  /\ pc = "picture"
  /\ \E inserted \in BOOLEAN :
       IF inserted
       THEN /\ slides' = [slides EXCEPT ![Len(slides)].picture = TRUE]
            /\ tempFile' = FALSE
            /\ pc' = "layout"
            /\ i' = i + 1
            /\ image_desc' = ""
            /\ UNCHANGED <<failed, raised, message>>
       ELSE /\ failed' = failed \cup {"add_picture"}
            /\ raised' = "PictureError"
            /\ message' = "An error occurred"
            /\ pc' = "error"
            /\ UNCHANGED <<slides, tempFile, i, image_desc>>
  /\ UNCHANGED <<topic, gemini_api_key, pexel_api_key, include_images, caller,
                 now, last_api_call, api_call_count, attempt, log, retResult,
                 content_outlines, contacted, savedFile, constructed, apiErrors>>

\* lines 236-240 and 274-278: add_picture, then os.remove; an exception of
\* add_picture is caught by the routine and skips os.remove
AddPicture ==
  /\ pc = "picture"
  /\ \E inserted \in BOOLEAN :
       IF inserted
       THEN /\ slides' = [slides EXCEPT ![Len(slides)].picture = TRUE]
            /\ tempFile' = FALSE
            /\ UNCHANGED failed
       ELSE /\ MarkFailed("add_picture")
            /\ UNCHANGED <<slides, tempFile>>
  /\ RoutineReturns
  /\ UNCHANGED <<topic, gemini_api_key, pexel_api_key, include_images, caller,
                 now, last_api_call, api_call_count, attempt, log, retResult,
                 content_outlines, contacted,
                 savedFile, message, raised, constructed, apiErrors>>

\* line 312 and lines 446-454: the loop is over, the file is saved and
\* offered for download
Save ==
  /\ pc = "layout"
  /\ i = Len(content_outlines)
  /\ savedFile' = TRUE
  /\ pc' = "done"
  /\ UNCHANGED <<topic, gemini_api_key, pexel_api_key, include_images, caller,
                 now, last_api_call, api_call_count, attempt, log, retResult,
                 content_outlines, i, slides, image_desc, tempFile, contacted,
                 message, raised, constructed, failed, apiErrors>>

-----------------------------------------------------------------------------

Init ==
  /\ topic \in Topics
  /\ gemini_api_key \in Keys
  /\ pexel_api_key \in Keys
  /\ include_images \in BOOLEAN
  /\ pc = "form"
  /\ caller = "outline"
  /\ now = StartTime
  /\ last_api_call = 0
  /\ api_call_count = 0
  /\ attempt = 0
  /\ log = <<>>
  /\ retResult = None
  /\ content_outlines = <<>>
  /\ i = 0
  /\ slides = <<>>
  /\ image_desc = ""
  /\ tempFile = FALSE
  /\ contacted = {}
  /\ savedFile = FALSE
  /\ message = ""
  /\ raised = ""
  /\ constructed = FALSE
  /\ failed = {}
  /\ apiErrors = 0

Next ==
  \/ MainRejects
  \/ MainGenerates
  \/ ApiCallReturns
  \/ ApiCallRaises
  \/ ParseOutline
  \/ LayoutAbort
  \/ LayoutTitle
  \/ LayoutPlain
  \/ LayoutContent
  \/ LayoutImage
  \/ DescriptionReturns
  \/ DownloadImages
  \/ AddPicture
  \/ Save

Spec == Init /\ [][Next]_vars

-----------------------------------------------------------------------------
(* Properties *)

Returning == pc \in {"outline_ret", "desc_ret"}

Last(q) == q[Len(q)]

IsOtherError(error_msg) ==
  /\ ~Contains(error_msg, <<"4","2","9">>)
  /\ ~Contains(Lower(error_msg), <<"q","u","o","t","a">>)
  /\ ~Contains(error_msg, <<"5","0","3">>)

IsQuotaMessage(error_msg) ==
  \/ Contains(error_msg, <<"4","2","9">>)
  \/ Contains(Lower(error_msg), <<"q","u","o","t","a">>)

\* the invocation that just returned failed with quota errors on every
\* attempt but the last, which succeeded
QuotaThenSuccess ==
  /\ Returning
  /\ log # <<>>
  /\ Last(log).ok
  /\ \A k \in 1..(Len(log) - 1) : ~log[k].ok /\ IsQuotaMessage(log[k].msg)

\* C1: when the wrapped call fails with quota errors on its first k
\* attempts (k = 0, 1, 2) and then succeeds, _retry_api_call returns the
\* value of the successful attempt, the backoff slept after the i-th failed
\* attempt is 45 * i seconds, and nothing is slept after the success.
C1_QuotaBackoff ==
  QuotaThenSuccess =>
    /\ Len(log) <= 3
    /\ retResult = Returned(Last(log).value)
    /\ \A k \in 1..(Len(log) - 1) : log[k].wait_time = 45 * k
    /\ Last(log).wait_time = 0
    /\ now - Last(log).started \in Durations

C1_Witness ==
  /\ QuotaThenSuccess
  /\ Len(log) = 3
  /\ log[1].wait_time = 45
  /\ log[2].wait_time = 90

\* every attempt of the invocation that just returned failed with a quota
\* or a service-unavailable error
AllTransient ==
  /\ Returning
  /\ Len(log) = 3
  /\ \A k \in 1..3 : ~log[k].ok /\ ~IsOtherError(log[k].msg)

\* C2: _retry_api_call invokes the wrapped call at most 3 times and no
\* exception leaves it; when all 3 attempts fail with quota or 503 errors,
\* in any mix, it returns None after the third without a further backoff.
C2_BoundedRetry ==
  /\ Len(log) <= 3
  /\ raised \in {"", "AttributeError"}
  /\ AllTransient =>
       /\ retResult = None
       /\ log[3].wait_time = 0
       /\ now - log[3].started \in Durations

C2_Witness ==
  /\ AllTransient
  /\ IsQuotaMessage(log[1].msg)
  /\ ~IsQuotaMessage(log[2].msg)
  /\ retResult = None

\* the routine and image flag the slide type alone asks for
ExpectedByType(slide_type) ==
  CASE slide_type = "title" -> <<"create_title_slide", FALSE>>
    [] slide_type = "content" -> <<"create_content_slide", TRUE>>
    [] slide_type = "image" -> <<"create_image_slide", TRUE>>
    [] OTHER -> <<"create_content_slide", FALSE>>

WellFormed == \A k \in DOMAIN content_outlines : content_outlines[k].kind = "dict"

LaidOutInOrder ==
  /\ Len(slides) <= Len(content_outlines)
  /\ pc = "done" => Len(slides) = Len(content_outlines)
  /\ \A k \in DOMAIN slides :
       slides[k].title = TitleOf(content_outlines[k], k - 1)

\* C3 as stated: for a well-formed outline of N records generate_ppt makes
\* N layout calls in list order, each with its record's title and with the
\* routine matching the record's slide_type, at every position including
\* the first.
C3_Original ==
  WellFormed =>
    /\ LaidOutInOrder
    /\ \A k \in DOMAIN slides :
         <<slides[k].routine, slides[k].include_image>>
           = ExpectedByType(SlideTypeOf(content_outlines[k]))

\* C3 amended: as above, but the record at the first position is always
\* laid out by the title routine, whatever its slide_type; from the second
\* position on the routine matches the slide_type.
C3_Amended ==
  WellFormed =>
    /\ LaidOutInOrder
    /\ \A k \in DOMAIN slides :
         <<slides[k].routine, slides[k].include_image>>
           = IF k = 1 THEN <<"create_title_slide", FALSE>>
             ELSE ExpectedByType(SlideTypeOf(content_outlines[k]))

C3_Witness ==
  /\ pc = "done"
  /\ Len(content_outlines) = 2
  /\ WellFormed
  /\ content_outlines[1].slide_type = "image"
  /\ content_outlines[2].slide_type = "image"
  /\ slides[1].routine = "create_title_slide"
  /\ slides[2].routine = "create_image_slide"

\* C4 as stated: whatever generate_content_outlines returns, every element
\* handed to generate_ppt is a slide record, and generate_ppt never aborts
\* on the shape of the outline.
C4_OutlineIsRecords ==
  /\ \A k \in DOMAIN content_outlines : content_outlines[k].kind = "dict"
  /\ raised # "AttributeError"

FetchSteps == {"search_error", "no_photo", "download_error", "add_picture"}

\* C5 as stated: when any step of the image fetch fails, the failed
\* description request included, the slide has no picture.
C5_Original ==
  (failed # {} /\ slides # <<>>) => ~Last(slides).picture

\* C5 amended: when the photo search errors or finds nothing, the download
\* errors or the insertion raises, the slide is there with its title and
\* text and without a picture, no exception of the image steps reaches
\* generate_ppt and the loop moves on to the next record or to the save;
\* a failed description request only replaces the query by the default
\* phrase, the slide keeps its title and text and may still get a picture.
C5_Amended ==
  /\ raised \in {"", "AttributeError", "ValueError"}
  /\ failed # {} =>
       /\ slides # <<>>
       /\ Last(slides).title = TitleOf(content_outlines[Len(slides)], Len(slides) - 1)
       /\ Last(slides).text = ContentText(ContentOf(content_outlines[Len(slides)]))
  /\ failed \cap FetchSteps # {} =>
       /\ ~Last(slides).picture
       /\ i = Len(slides)
       /\ \/ pc = "layout"
          \/ pc = "done" /\ savedFile
          \/ pc = "error" /\ raised = "AttributeError"
  /\ (failed = {"description"} /\ pc \in {"download", "picture"}) =>
       image_desc = "professional presentation visual"

C5_Witness ==
  /\ pc = "done"
  /\ savedFile
  /\ "add_picture" \in failed
  /\ Len(slides) = Len(content_outlines)
  /\ ~Last(slides).picture
  /\ Last(slides).routine = "create_image_slide"
  /\ Last(slides).text = <<"M","o","v","i","e","s">>

\* C6: with an empty topic, Gemini key or Pexels key the button press ends
\* in a validation error: no PPTGenerator is constructed, no request is
\* sent to any service and no file is written; a request is sent only when
\* all three inputs are non-empty.
C6_ValidationBlocks ==
  (topic = "" \/ gemini_api_key = "" \/ pexel_api_key = "") =>
    /\ ~constructed
    /\ contacted = {}
    /\ ~savedFile
    /\ raised = ""
    /\ pc \in {"form", "rejected"}
    /\ pc = "rejected" => message # ""

C6_Witness ==
  /\ pc = "rejected"
  /\ topic # ""
  /\ gemini_api_key # ""
  /\ pexel_api_key = ""
  /\ message = "Please provide your Pexels API key in the sidebar!"

\* the step is an attempt of _retry_api_call whose request raised an error
\* that is neither a quota nor a 503 error
OtherErrorStep ==
  /\ Len(log') = Len(log) + 1
  /\ ~Last(log').ok
  /\ IsOtherError(Last(log').msg)

AbandonedOnOtherError ==
  /\ Returning
  /\ log # <<>>
  /\ ~Last(log).ok
  /\ IsOtherError(Last(log).msg)

\* C7: an attempt that fails with an error that is neither quota nor 503
\* ends the invocation at once, without backoff and with None; the caller
\* then substitutes its default: the fallback outline, or the phrase
\* 'professional presentation visual'.
C7_OtherErrorAbandons ==
  [][ /\ OtherErrorStep =>
           /\ pc' = ReturnPoint(caller)
           /\ retResult' = None
           /\ now' - last_api_call' \in Durations
      /\ (AbandonedOnOtherError /\ pc = "outline_ret") =>
           content_outlines' = _get_fallback_content(topic)
      /\ (AbandonedOnOtherError /\ pc = "desc_ret") =>
           image_desc' = "professional presentation visual"
    ]_vars

C7_Witness ==
  /\ AbandonedOnOtherError
  /\ pc = "desc_ret"
  /\ Len(log) = 2
  /\ retResult = None

\* C8 as stated: with the "include images" toggle off, a run sends no
\* photo-search and no image-download request and no slide gets a picture.
C8_ToggleOff ==
  ~include_images =>
    /\ "search" \notin contacted
    /\ "download" \notin contacted
    /\ \A k \in DOMAIN slides : ~slides[k].picture

\* C9 as stated: once the slide routine that asked for an image has
\* returned, the temporary image file no longer exists.
C9_TempFileRemoved ==
  pc # "picture" => ~tempFile

Max(a, b) == IF a >= b THEN a ELSE b

\* C10: two consecutive attempts on one generator start at least 30
\* seconds apart: before an attempt _wait_for_rate_limit sleeps 30 seconds
\* minus the time since the previous attempt started when that is positive
\* and not at all otherwise (so not before the first attempt);
\* api_call_count goes up by exactly one per attempt and never down.
C10_RateLimit ==
  [][ /\ api_call_count' >= api_call_count
      /\ Len(log') = Len(log) + 1 => api_call_count' = api_call_count + 1
      /\ api_call_count' # api_call_count =>
           /\ api_call_count' = api_call_count + 1
           /\ Len(log') = Len(log) + 1
           /\ last_api_call' = IF api_call_count = 0 THEN now
                               ELSE Max(now, last_api_call + 30)
           /\ api_call_count > 0 => last_api_call' - last_api_call >= 30
    ]_vars

C10_Witness ==
  /\ Len(log) = 2
  /\ ~log[1].ok
  /\ Contains(log[1].msg, <<"5","0","3">>)
  /\ ~IsQuotaMessage(log[1].msg)
  /\ log[1].wait_time = 5
  /\ log[2].started = log[1].started + 30
  /\ api_call_count > 2

====
